---------------------------- MODULE Spec2Model ----------------------------
(***************************************************************************)
(* A model of the retrieval core of src/rag_system.py: the text            *)
(* normaliser (AgnosRAG.preprocess_text), the TF-IDF index                 *)
(* (build_index / save_index / load_index), the ranker (search) and the    *)
(* answer composer (AgnosHealthRAG.answer_question).                       *)
(*                                                                         *)
(* Strings are sequences of one-character strings.  Floating-point         *)
(* weights are fixed-point integers (idf in 1/100, normalised weights in   *)
(* 1/1000, similarities in 1/1000000).                                     *)
(***************************************************************************)
EXTENDS Integers, Sequences, FiniteSets, TLC

VARIABLES
    rag,      \* the AgnosRAG instance: vectorizer, tfidf_matrix, documents, metadata
    disk,     \* the three artifacts under the index path
    ret,      \* what the last call returned or raised
    hist,     \* history: what has happened to this instance and to the disk
    norm,     \* the successive outputs of preprocess_text (SpecNorm only)
    scrape    \* one call of ThreadScraper.scrape_threads (SpecScrape only)

vars == <<rag, disk, ret, hist, norm, scrape>>

None == "None"

(***************************************************************************)
(* Bounds of the model.                                                    *)
(***************************************************************************)
MaxDocs == 3       \* raw documents in one corpus
MaxK == 2          \* largest k passed to search / answer_question
MaxLen == 4        \* length of the strings preprocess_text is iterated on
MaxCalls == 4      \* calls that change the instance or the disk in one run

(***************************************************************************)
(* Program constants.                                                      *)
(***************************************************************************)
MinTextLength == 50       \* build_index keeps len(cleaned_text) > 50
SnippetLength == 1000     \* metadata original_content = content[:1000]
AnswerLength == 800       \* answer body = content[:800] + "..."
SourceSnippetLength == 300 \* content_snippet = original_content[:300] + "..."
MaxFeatures == 5000       \* TfidfVectorizer(max_features=5000)
MinDf == 1                \* TfidfVectorizer(min_df=1)
MaxDfTenths == 8          \* TfidfVectorizer(max_df=0.8), in tenths
TokenMinLength == 2       \* default token_pattern \b\w\w+\b
NgramMax == 2             \* ngram_range=(1, 2)

(***************************************************************************)
(* Characters.  CodeOrder lists the characters of the model by code point. *)
(***************************************************************************)
CodeOrder ==
    << "\t", " ", "!", ",", "-", ".", "?", "@", "A", "F", "R", "_",
       "a", "b", "c", "d", "e", "f", "g", "h", "i", "j", "k", "l", "m",
       "n", "o", "p", "q", "r", "s", "t", "u", "v", "w", "x", "y", "z" >>

Code(c) == CHOOSE i \in 1..Len(CodeOrder) : CodeOrder[i] = c

UpperChars == <<"A", "F", "R">>
LowerOfUpper == <<"a", "f", "r">>

IsUpper(c) == \E i \in 1..Len(UpperChars) : UpperChars[i] = c

\* \s of the re module
IsSpace(c) == c \in {" ", "\t"}

\* \w of the re module (letters, digits, underscore)
IsWord(c) == ~IsSpace(c) /\ c \notin {"!", ",", "-", ".", "?", "@"}

\* the punctuation the second substitution keeps
IsKeptPunct(c) == c \in {".", ",", "!", "?", "-"}

\* str.lower() on one character
LowerChar(c) ==
    IF IsUpper(c)
    THEN LowerOfUpper[CHOOSE i \in 1..Len(UpperChars) : UpperChars[i] = c]
    ELSE c

Lower(s) == [i \in 1..Len(s) |-> LowerChar(s[i])]

\* re.sub(r'\s+', ' ', text): every maximal whitespace run becomes one space
CollapseSpaces(s) ==
    LET f[i \in 0..Len(s)] ==
            IF i = 0 THEN <<>>
            ELSE IF IsSpace(s[i])
                 THEN IF i > 1 /\ IsSpace(s[i-1]) THEN f[i-1]
                      ELSE Append(f[i-1], " ")
                 ELSE Append(f[i-1], s[i])
    IN f[Len(s)]

\* re.sub(r'[^\w\s<Thai block>.,!?\-]', ' ', text): one space per removed character
ReplaceSpecial(s) ==
    [i \in 1..Len(s) |->
        IF IsWord(s[i]) \/ IsSpace(s[i]) \/ IsKeptPunct(s[i]) THEN s[i] ELSE " "]

\* str.strip()
Strip(s) ==
    LET keep == {i \in 1..Len(s) : ~IsSpace(s[i])}
    IN IF keep = {} THEN <<>>
       ELSE LET lo == CHOOSE i \in keep : \A j \in keep : i <= j
                hi == CHOOSE i \in keep : \A j \in keep : j <= i
            IN SubSeq(s, lo, hi)

\* AgnosRAG.preprocess_text
preprocess_text(text) ==
    IF text = <<>> THEN <<>>
    ELSE Lower(Strip(ReplaceSpecial(CollapseSpaces(text))))

(***************************************************************************)
(* TfidfVectorizer (scikit-learn), as build_index configures it.           *)
(***************************************************************************)
Range(s) == {s[i] : i \in 1..Len(s)}

\* F(x), with x evaluated once
Bind(x, F(_)) == CHOOSE r \in {F(v) : v \in {x}} : TRUE

SumSeq(s) ==
    LET f[i \in 0..Len(s)] == IF i = 0 THEN 0 ELSE f[i-1] + s[i]
    IN f[Len(s)]

\* the default tokenizer: maximal runs of word characters, two or more long
RECURSIVE TokenizeFrom(_, _, _, _)
TokenizeFrom(s, i, done, cur) ==
    LET flushed == IF Len(cur) >= TokenMinLength THEN Append(done, cur) ELSE done
    IN IF i > Len(s) THEN flushed
       ELSE IF IsWord(s[i]) THEN TokenizeFrom(s, i + 1, done, Append(cur, s[i]))
       ELSE TokenizeFrom(s, i + 1, flushed, <<>>)

Tokenize(s) == TokenizeFrom(s, 1, <<>>, <<>>)

\* the analyzer: lowercase, tokenize, then unigrams followed by bigrams
Analyze(text) ==
    LET t == Tokenize(Lower(text))
    IN IF NgramMax < 2 \/ Len(t) < 2 THEN t
       ELSE t \o [i \in 1..(Len(t) - 1) |-> t[i] \o <<" ">> \o t[i+1]]

TermCount(term, terms) == Cardinality({i \in 1..Len(terms) : terms[i] = term})

\* a <= b as Python compares strings (by code point, a prefix first)
StrLeq(a, b) ==
    LET n == IF Len(a) < Len(b) THEN Len(a) ELSE Len(b)
        diff == {i \in 1..n : a[i] /= b[i]}
    IN IF diff = {} THEN Len(a) <= Len(b)
       ELSE LET i == CHOOSE x \in diff : \A y \in diff : x <= y
            IN Code(a[i]) < Code(b[i])

\* _sort_features: the vocabulary in alphabetical order; a term's place is its column
RECURSIVE SortTerms(_)
SortTerms(S) ==
    IF S = {} THEN <<>>
    ELSE LET m == CHOOSE x \in S : \A y \in S : StrLeq(x, y)
         IN <<m>> \o SortTerms(S \ {m})

\* floor of the square root
RECURSIVE SqrtBetween(_, _, _)
SqrtBetween(n, lo, hi) ==
    IF lo >= hi THEN lo
    ELSE LET mid == (lo + hi + 1) \div 2
         IN IF mid * mid <= n THEN SqrtBetween(n, mid, hi)
            ELSE SqrtBetween(n, lo, mid - 1)

ISqrt(n) == SqrtBetween(n, 0, IF n < 46340 THEN n ELSE 46340)

\* 100 * ln(k)
LnCenti(k) == <<0, 69, 110, 139, 161, 179, 195, 208>>[k]

\* normalize(X, norm='l2') on one row, weights in 1/1000; a zero row stays zero
L2Normalize(row) ==
    Bind(row, LAMBDA r :
        Bind(ISqrt(SumSeq([j \in 1..Len(r) |-> r[j] * r[j]])), LAMBDA nrm :
            IF nrm = 0 THEN r
            ELSE [j \in 1..Len(r) |-> (r[j] * 1000) \div nrm]))

\* TfidfVectorizer() before fit: no vocabulary_
UnfittedVectorizer ==
    [type |-> "TfidfVectorizer", fitted |-> FALSE, vocabulary |-> <<>>, idf |-> <<>>]

\* the tf-idf row of one analysed text under a fitted vocabulary
TfidfRow(vocabulary, idf, terms) ==
    Bind(terms, LAMBDA ts :
        L2Normalize([j \in 1..Len(vocabulary) |-> TermCount(vocabulary[j], ts) * idf[j]]))

\* _limit_features with max_features: the most frequent terms of the corpus
LimitFeatures(kept, analysed) ==
    IF Cardinality(kept) <= MaxFeatures THEN kept
    ELSE LET tf(t) == SumSeq([i \in 1..Len(analysed) |-> TermCount(t, analysed[i])])
         IN CHOOSE S \in SUBSET kept :
                /\ Cardinality(S) = MaxFeatures
                /\ \A a \in S, b \in kept \ S : tf(a) >= tf(b)

\* TfidfVectorizer.fit_transform(texts): the fitted vectorizer and the matrix,
\* or the ValueError it raises
fit_transform(texts) ==
    LET n == Len(texts)
        analysed == [i \in 1..n |-> Analyze(texts[i])]
        terms == UNION {Range(analysed[i]) : i \in 1..n}
        df(t) == Cardinality({i \in 1..n : t \in Range(analysed[i])})
        inRange == {t \in terms : 10 * df(t) <= MaxDfTenths * n /\ df(t) >= MinDf}
        kept == LimitFeatures(inRange, analysed)
        vocabulary == SortTerms(kept)
        idf == [j \in 1..Len(vocabulary) |->
                   LnCenti(1 + n) - LnCenti(1 + df(vocabulary[j])) + 100]
    IN IF terms = {}
       THEN [error |-> "ValueError: empty vocabulary"]
       ELSE IF MaxDfTenths * n < 10 * MinDf
       THEN [error |-> "ValueError: max_df corresponds to < documents than min_df"]
       ELSE IF kept = {}
       THEN [error |-> "ValueError: After pruning, no terms remain"]
       ELSE [error |-> None,
             vectorizer |-> [type |-> "TfidfVectorizer", fitted |-> TRUE,
                             vocabulary |-> vocabulary, idf |-> idf],
             matrix |-> [i \in 1..n |-> TfidfRow(vocabulary, idf, analysed[i])]]

\* TfidfVectorizer.transform([text]) of a fitted vectorizer: one row
transform(vectorizer, text) ==
    TfidfRow(vectorizer.vocabulary, vectorizer.idf, Analyze(text))

\* cosine_similarity(query_vector, tfidf_matrix).flatten(), in 1/1000000
cosine_similarity(q, matrix) ==
    Bind(L2Normalize(q), LAMBDA qn :
        [i \in 1..Len(matrix) |->
            Bind(L2Normalize(matrix[i]), LAMBDA rn :
                SumSeq([j \in 1..Len(qn) |-> qn[j] * rn[j]]))])

(***************************************************************************)
(* Python values and slices.                                               *)
(***************************************************************************)
PyNone == [type |-> "NoneType"]

Min(a, b) == IF a < b THEN a ELSE b
Max(a, b) == IF a > b THEN a ELSE b

\* seq[:n] for n >= 0
Take(s, n) == SubSeq(s, 1, Min(n, Len(s)))

\* seq[start:] as Python normalises the start: a negative start counts from the
\* end, and -0 is 0
SliceFrom(s, start) ==
    LET n == Len(s)
        from == IF start < 0 THEN Max(n + start, 0) ELSE Min(start, n)
    IN SubSeq(s, from + 1, n)

\* seq[::-1]
Reverse(s) == [i \in 1..Len(s) |-> s[Len(s) + 1 - i]]

RECURSIVE Rep(_, _)
Rep(s, n) == IF n = 0 THEN <<>> ELSE s \o Rep(s, n - 1)

(***************************************************************************)
(* The inputs: raw documents, corpora, queries.                            *)
(***************************************************************************)
Ellipsis == <<".", ".", ".">>
Sp == <<" ">>
WFlu == <<"F", "l", "u">>
WRash == <<"R", "a", "s", "h">>
WFever == <<"f", "e", "v", "e", "r">>
WCough == <<"c", "o", "u", "g", "h">>
WSkin == <<"s", "k", "i", "n">>
WItch == <<"i", "t", "c", "h">>

\* two threads with the same title and content under different urls, a third on
\* another subject, and one whose raw text is 55 long and whose normalised text
\* is exactly 50 long
DocFluA == [url |-> "u1", title |-> WFlu,
            content |-> Rep(WFever \o Sp \o WCough \o Sp, 5)]
DocFluB == [url |-> "u2", title |-> WFlu,
            content |-> Rep(WFever \o Sp \o WCough \o Sp, 5)]
DocRash == [url |-> "u3", title |-> WRash,
            content |-> Rep(WSkin \o <<"\t", " ">> \o WItch \o <<"@">>, 5)]
DocShort == [url |-> "u4", title |-> WFlu,
             content |-> Rep(WFever \o Sp \o WCough \o Sp, 3) \o WFever \o Sp
                         \o WItch \o <<"@", "\t", "\t", "@", " ">>]

Pool == <<DocFluA, DocFluB, DocShort, DocRash>>

\* the corpora: the documents of the pool at increasing places, at most MaxDocs
\* of them
Corpora ==
    UNION {{[i \in 1..n |-> Pool[at[i]]] :
               at \in {a \in [1..n -> 1..Len(Pool)] :
                           \A i, j \in 1..n : i < j => a[i] < a[j]}}
           : n \in 0..MaxDocs}

Queries == {WFever, WRash \o <<"!", " ">> \o WFever, <<"z", "z">>}

Ks == 0..MaxK

(***************************************************************************)
(* AgnosRAG.                                                                *)
(***************************************************************************)
\* AgnosRAG.__init__
NewRAG == [vectorizer |-> PyNone, tfidf_matrix |-> PyNone,
           documents |-> <<>>, metadata |-> <<>>]

\* build_index: the cleaned text of one raw document
combined_text(doc) == doc.title \o Sp \o doc.content
cleaned_text(doc) == preprocess_text(combined_text(doc))

\* build_index: the minimum-length filter
KeepsDocument(doc) == Len(cleaned_text(doc)) > MinTextLength

\* build_index: the metadata entry of one raw document
MetadataOf(doc) == [url |-> doc.url, title |-> doc.title,
                    original_content |-> Take(doc.content, SnippetLength)]

\* build_index, lines 120-133 and 148: the loop over the raw documents and the
\* fit, which read nothing of the instance
Indexing(documents) ==
    LET kept == SelectSeq(documents, KeepsDocument)
        texts == [i \in 1..Len(kept) |-> cleaned_text(kept[i])]
    IN [texts |-> texts,
        metadata |-> [i \in 1..Len(kept) |-> MetadataOf(kept[i])],
        fit |-> IF texts = <<>> THEN [error |-> "not called"] ELSE fit_transform(texts)]

\* Indexing, tabulated over the corpora of the model
IndexingOf == [c \in Corpora |-> Indexing(c)] @@ <<>>

\* build_index(documents): the instance afterwards and what the call raised
build_index(self, documents) ==
    LET ix == IndexingOf[documents]
        cleared == [self EXCEPT !.documents = ix.texts, !.metadata = ix.metadata]
    IN IF ix.texts = <<>>
       THEN [self |-> cleared, raised |-> "ValueError: No valid documents to index"]
       ELSE IF ix.fit.error /= None
       THEN [self |-> [cleared EXCEPT !.vectorizer = UnfittedVectorizer],
             raised |-> ix.fit.error]
       ELSE [self |-> [cleared EXCEPT
                          !.vectorizer = ix.fit.vectorizer,
                          !.tfidf_matrix = [type |-> "csr_matrix",
                                            rows |-> ix.fit.matrix]],
             raised |-> None]

(***************************************************************************)
(* Persistence: three pickled artifacts under one index path.              *)
(***************************************************************************)
Missing == [exists |-> FALSE]

\* pickle.dump / pickle.load: the pickle of an object holds the object
pickle_dump(obj) == [exists |-> TRUE, pickled |-> obj]
pickle_load(file) == file.pickled

EmptyDisk == [vectorizer |-> Missing, matrix |-> Missing, metadata |-> Missing]

\* save_index(index_path): the files written in order; an OSError at the
\* (written+1)-th open leaves the later files as they were
save_index(self, files, written) ==
    [vectorizer |-> IF written >= 1 THEN pickle_dump(self.vectorizer)
                    ELSE files.vectorizer,
     matrix |-> IF written >= 2 THEN pickle_dump(self.tfidf_matrix)
                ELSE files.matrix,
     metadata |-> IF written >= 3
                  THEN pickle_dump([documents |-> self.documents,
                                    metadata |-> self.metadata])
                  ELSE files.metadata]

\* load_index that reads the matrix file and does not assign self.tfidf_matrix
load_index_keeps_matrix(self, files) ==
    IF ~(files.vectorizer.exists /\ files.matrix.exists /\ files.metadata.exists)
    THEN [self |-> self, raised |-> "FileNotFoundError"]
    ELSE [self |-> [self EXCEPT
                       !.vectorizer = pickle_load(files.vectorizer),
                       !.documents = pickle_load(files.metadata).documents,
                       !.metadata = pickle_load(files.metadata).metadata],
          raised |-> None]

\* load_index(index_path): each field is assigned as soon as its file is read;
\* a missing file raises FileNotFoundError and leaves the earlier assignments
load_index(self, files) ==
    IF ~files.vectorizer.exists
    THEN [self |-> self, raised |-> "FileNotFoundError"]
    ELSE LET s1 == [self EXCEPT !.vectorizer = pickle_load(files.vectorizer)]
         IN IF ~files.matrix.exists
            THEN [self |-> s1, raised |-> "FileNotFoundError"]
            ELSE LET s2 == [s1 EXCEPT !.tfidf_matrix = pickle_load(files.matrix)]
                 IN IF ~files.metadata.exists
                    THEN [self |-> s2, raised |-> "FileNotFoundError"]
                    ELSE LET data == pickle_load(files.metadata)
                         IN [self |-> [s2 EXCEPT !.documents = data.documents,
                                                 !.metadata = data.metadata],
                             raised |-> None]

(***************************************************************************)
(* search and answer_question.                                             *)
(***************************************************************************)
\* search, lines 185-191: the query's row and its similarity to every row
QuerySimilarities(vectorizer, rows, query) ==
    Bind(transform(vectorizer, preprocess_text(query)), LAMBDA q :
        IF Len(q) /= Len(rows[1])
        THEN [raised |-> "ValueError: Incompatible dimension"]
        ELSE [raised |-> None, similarities |-> cosine_similarity(q, rows)])

\* QuerySimilarities, tabulated over the vectorizers and matrices the corpora of
\* the model fit, and the queries of the model
SimilaritiesOf ==
    LET fits == {IndexingOf[c].fit : c \in Corpora}
        good == {f \in fits : f.error = None}
    IN [x \in {<<f.vectorizer, g.matrix, q>> : f \in good, g \in good, q \in Queries}
           |-> QuerySimilarities(x[1], x[2], x[3])] @@ <<>>

\* the guard of search, then the similarities, or what is raised before the
\* ranking
Similarities(self, query) ==
    IF self.vectorizer = PyNone \/ self.tfidf_matrix = PyNone
    THEN [raised |-> "ValueError: Index not built. Call build_index() first."]
    ELSE IF ~self.vectorizer.fitted
    THEN [raised |-> "NotFittedError"]
    ELSE Bind(<<self.vectorizer, self.tfidf_matrix.rows, query>>, LAMBDA x :
             IF x \in DOMAIN SimilaritiesOf THEN SimilaritiesOf[x]
             ELSE QuerySimilarities(x[1], x[2], x[3]))

\* similarities.argsort(): the orders that sort ascending; numpy's default sort
\* is not stable, so equal similarities may come out in any order
Argsort(similarities) ==
    LET n == Len(similarities)
    IN {[i \in 1..n |-> p[i]] : p \in
           {p \in Permutations(1..n) :
               \A i, j \in 1..n : i < j => similarities[p[i]] <= similarities[p[j]]}}

\* argsort()[:k][::-1]: the k lowest instead of the k highest
TopIndices_lowest(order, k) == Reverse(Take(order, k))

\* argsort()[-k:][::-1]
TopIndices(order, k) == Reverse(SliceFrom(order, 0 - k))

\* the loop of search over top_indices: the results, or the IndexError of
\* documents[idx] / metadata[idx]
Results(self, similarities, top_indices) ==
    Bind(SelectSeq(top_indices, LAMBDA idx : similarities[idx] > 0), LAMBDA hits :
        IF \E i \in 1..Len(hits) :
               hits[i] > Len(self.documents) \/ hits[i] > Len(self.metadata)
        THEN [raised |-> "IndexError", value |-> <<>>]
        ELSE [raised |-> None,
              value |-> [i \in 1..Len(hits) |->
                            [score |-> similarities[hits[i]],
                             content |-> self.documents[hits[i]],
                             metadata |-> self.metadata[hits[i]]]]])

\* search, from the ranking on: every outcome, given what came before it
Ranked(self, sims, k) ==
    IF sims.raised /= None THEN {[raised |-> sims.raised, value |-> <<>>]}
    ELSE {Results(self, sims.similarities, TopIndices(order, k))
             : order \in Argsort(sims.similarities)}

\* search(query, k): every outcome the call can have
search(self, query, k) == Ranked(self, Similarities(self, query), k)

NoInformationFound == "no information found"
AnswerPrefix == "from the forum:"
AnswerDisclaimer == "consult a doctor"

\* answer_question with the confidence taken from the last result
compose_answer_last_score(results) ==
    IF results = <<>>
    THEN [answer |-> [text |-> NoInformationFound, body |-> <<>>],
          sources |-> <<>>, confidence |-> 0]
    ELSE [answer |-> [text |-> AnswerPrefix, body |-> results[1].content,
                      disclaimer |-> AnswerDisclaimer],
          sources |-> [i \in 1..Len(results) |->
              [title |-> results[i].metadata.title,
               url |-> results[i].metadata.url,
               score |-> results[i].score,
               content_snippet |->
                   Take(results[i].metadata.original_content, SourceSnippetLength)
                   \o Ellipsis]],
          confidence |-> results[Len(results)].score]

\* answer_question, given what search returned
compose_answer(results) ==
    IF results = <<>>
    THEN [answer |-> [text |-> NoInformationFound, body |-> <<>>],
          sources |-> <<>>, confidence |-> 0]
    ELSE LET best_result == results[1]
             content == IF Len(best_result.content) > AnswerLength
                        THEN Take(best_result.content, AnswerLength) \o Ellipsis
                        ELSE best_result.content
         IN [answer |-> [text |-> AnswerPrefix, body |-> content,
                         disclaimer |-> AnswerDisclaimer],
             sources |-> [i \in 1..Len(results) |->
                 [title |-> results[i].metadata.title,
                  url |-> results[i].metadata.url,
                  score |-> results[i].score,
                  content_snippet |->
                      Take(results[i].metadata.original_content, SourceSnippetLength)
                      \o Ellipsis]],
             confidence |-> best_result.score]

(***************************************************************************)
(* ThreadScraper.scrape_threads: one task per url, all under one           *)
(* asyncio.Semaphore(max_concurrent).  A url is its place in urls.         *)
(*                                                                         *)
(* A task is "pending" until its first step, "waiting" while it awaits its *)
(* future in the semaphore's queue, "fetching" while scrape_thread awaits  *)
(* session.get, "reading" while it awaits response.text(), then "done".    *)
(***************************************************************************)
MaxUrls == 4          \* urls in one call of scrape_threads
MaxConcurrent == 3    \* largest max_concurrent of a ThreadScraper

ScrapeMinContent == 50    \* scrape_threads keeps len(content) > 50

\* the lengths of the content of a page that answered 200
ContentLengths == {ScrapeMinContent, ScrapeMinContent + 1}

\* no call of scrape_threads
NoScrape ==
    [max_concurrent |-> 0, pc |-> <<>>, value |-> 0, waiters |-> <<>>,
     woken |-> {}, waited |-> {}, results |-> <<>>, returned |-> PyNone]

\* scrape_threads up to the await of gather: the semaphore and one task per url
scrape_threads(max_concurrent, n) ==
    [max_concurrent |-> max_concurrent,
     pc |-> [i \in 1..n |-> "pending"],
     value |-> max_concurrent,       \* Semaphore._value
     waiters |-> <<>>,               \* Semaphore._waiters, oldest first
     woken |-> {},                   \* waiters whose future has its result
     waited |-> {},                  \* history: the tasks that had to queue
     results |-> [i \in 1..n |-> PyNone],
     returned |-> PyNone]

\* the tasks that hold a slot: inside "async with semaphore"
InFlight(s) == {i \in 1..Len(s.pc) : s.pc[i] \in {"fetching", "reading"}}

\* Semaphore.locked (no future is ever cancelled here)
locked(s) == s.value = 0 \/ Len(s.waiters) > 0

\* Semaphore._wake_up_next: the first waiter not yet woken takes the slot
wake_up_next(s) ==
    LET cand == {k \in 1..Len(s.waiters) : s.waiters[k] \notin s.woken}
    IN IF cand = {} THEN s
       ELSE LET k == CHOOSE x \in cand : \A y \in cand : x <= y
            IN [s EXCEPT !.value = @ - 1, !.woken = @ \cup {s.waiters[k]}]

\* Semaphore.release
release(s) == wake_up_next([s EXCEPT !.value = @ + 1])

\* Semaphore.acquire up to its await: take a slot at once, or queue
acquire(s, i) ==
    IF ~locked(s)
    THEN [s EXCEPT !.value = @ - 1, !.pc[i] = "fetching"]
    ELSE [s EXCEPT !.waiters = Append(@, i), !.waited = @ \cup {i},
                   !.pc[i] = "waiting"]

\* Semaphore.acquire after its await: leave the queue, pass a spare slot on
acquire_resume(s, i) ==
    LET r == [s EXCEPT !.waiters = SelectSeq(@, LAMBDA w : w /= i),
                       !.woken = @ \ {i}, !.pc[i] = "fetching"]
    IN IF r.value > 0 THEN wake_up_next(r) ELSE r

\* what scrape_thread returns
Scraped(url, length) == [url |-> url, error |-> None, content_length |-> length]
ScrapeError(url, error) == [url |-> url, error |-> error, content_length |-> 0]

\* scrape_thread returns and "async with semaphore" exits without releasing
\* after an error
bounded_scrape_return_leaks(s, i, result) ==
    LET r == [s EXCEPT !.results[i] = result, !.pc[i] = "done"]
    IN IF result.error = None THEN release(r) ELSE r

\* scrape_thread returns and "async with semaphore" exits
bounded_scrape_return(s, i, result) ==
    release([s EXCEPT !.results[i] = result, !.pc[i] = "done"])

\* the filter of scrape_threads over the results of gather, in the order of urls
valid_results(results) ==
    SelectSeq(results, LAMBDA r : r.content_length > ScrapeMinContent)

(***************************************************************************)
(* The state machine: one AgnosRAG instance at a time, one index path.      *)
(***************************************************************************)
NoCall == [op |-> "none", raised |-> None]

Init ==
    /\ rag = NewRAG
    /\ disk = EmptyDisk
    /\ ret = NoCall
    /\ hist = [succeeded |-> FALSE, build_called |-> FALSE, saved |-> PyNone,
               calls |-> 0]
    /\ norm = <<>>
    /\ scrape = NoScrape

\* rag_system = AgnosRAG()
New ==
    /\ hist.calls < MaxCalls
    /\ rag' = NewRAG
    /\ ret' = [op |-> "__init__", raised |-> None]
    /\ hist' = [hist EXCEPT !.succeeded = FALSE, !.build_called = FALSE,
                             !.calls = @ + 1]
    /\ UNCHANGED <<disk, norm, scrape>>

BuildIndex ==
    \E documents \in Corpora :
        LET r == build_index(rag, documents)
        IN /\ hist.calls < MaxCalls
           /\ rag' = r.self
           /\ ret' = [op |-> "build_index", raised |-> r.raised,
                      documents |-> documents]
           /\ hist' = [hist EXCEPT !.succeeded = @ \/ r.raised = None,
                                    !.build_called = TRUE, !.calls = @ + 1]
           /\ UNCHANGED <<disk, norm, scrape>>

SaveIndex ==
    \E written \in 0..3 :
        /\ hist.calls < MaxCalls
        /\ disk' = save_index(rag, disk, written)
        /\ ret' = [op |-> "save_index",
                   raised |-> IF written = 3 THEN None ELSE "OSError"]
        /\ hist' = [hist EXCEPT !.saved = IF written = 3 THEN rag
                                          ELSE IF written = 0 THEN @ ELSE PyNone,
                                 !.calls = @ + 1]
        /\ UNCHANGED <<rag, norm, scrape>>

LoadIndex ==
    LET r == load_index(rag, disk)
    IN /\ hist.calls < MaxCalls
       /\ rag' = r.self
       /\ ret' = [op |-> "load_index", raised |-> r.raised]
       /\ hist' = [hist EXCEPT !.succeeded = @ \/ r.raised = None, !.calls = @ + 1]
       /\ UNCHANGED <<disk, norm, scrape>>

Search ==
    \E query \in Queries :
        LET sims == Similarities(rag, query)
        IN \E k \in Ks :
               \E r \in Ranked(rag, sims, k) :
                   /\ ret' = [op |-> "search", raised |-> r.raised,
                              value |-> r.value, query |-> query, k |-> k]
                   /\ UNCHANGED <<rag, disk, hist, norm, scrape>>

\* AgnosHealthRAG(rag).answer_question(question, k)
AnswerQuestion ==
    \E question \in Queries :
        LET sims == Similarities(rag, question)
        IN \E k \in Ks :
               \E r \in Ranked(rag, sims, k) :
                   /\ ret' = [op |-> "answer_question", raised |-> r.raised,
                              value |-> IF r.raised = None
                                        THEN compose_answer(r.value) ELSE <<>>,
                              results |-> r.value, query |-> question, k |-> k]
                   /\ UNCHANGED <<rag, disk, hist, norm, scrape>>

Next == New \/ BuildIndex \/ SaveIndex \/ LoadIndex \/ Search \/ AnswerQuestion

Spec == Init /\ [][Next]_vars

(***************************************************************************)
(* preprocess_text on its own: the input is drawn from the strings over    *)
(* NormChars at most MaxLen long, and the function is applied to its own   *)
(* output.                                                                 *)
(***************************************************************************)
NormChars == {"a", "A", " ", "\t", "@", "."}

NormInputs == UNION {[1..n -> NormChars] : n \in 0..MaxLen}

InitNorm ==
    /\ rag = NewRAG
    /\ disk = EmptyDisk
    /\ ret = NoCall
    /\ hist = [succeeded |-> FALSE, build_called |-> FALSE, saved |-> PyNone,
               calls |-> 0]
    /\ norm \in {<<s>> : s \in NormInputs}
    /\ scrape = NoScrape

Normalize ==
    /\ Len(norm) < 3
    /\ norm' = Append(norm, preprocess_text(norm[Len(norm)]))
    /\ UNCHANGED <<rag, disk, ret, hist, scrape>>

NextNorm == Normalize

SpecNorm == InitNorm /\ [][NextNorm]_vars

(***************************************************************************)
(* scrape_threads on its own.  The event loop runs the first step of the   *)
(* tasks in the order gather created them; responses arrive in any order.  *)
(* Every await inside scrape_thread ends: session.get carries timeout=30,  *)
(* and every exception becomes an error record.                            *)
(***************************************************************************)
InitScrape ==
    /\ rag = NewRAG
    /\ disk = EmptyDisk
    /\ ret = NoCall
    /\ hist = [succeeded |-> FALSE, build_called |-> FALSE, saved |-> PyNone,
               calls |-> 0]
    /\ norm = <<>>
    /\ \E max_concurrent \in 1..MaxConcurrent :
           \E n \in 0..MaxUrls :
               scrape = scrape_threads(max_concurrent, n)

\* the first step of bounded_scrape(urls[i]): "async with semaphore"
Acquire(i) ==
    /\ i \in 1..Len(scrape.pc)
    /\ scrape.pc[i] = "pending"
    /\ \A j \in 1..(i - 1) : scrape.pc[j] /= "pending"
    /\ scrape' = acquire(scrape, i)
    /\ UNCHANGED <<rag, disk, ret, hist, norm>>

\* a queued task runs again once its future has its result
Resume(i) ==
    /\ i \in 1..Len(scrape.pc)
    /\ scrape.pc[i] = "waiting"
    /\ i \in scrape.woken
    /\ scrape' = acquire_resume(scrape, i)
    /\ UNCHANGED <<rag, disk, ret, hist, norm>>

\* session.get answers 200, answers another status, or raises
Respond(i) ==
    /\ i \in 1..Len(scrape.pc)
    /\ scrape.pc[i] = "fetching"
    /\ \/ scrape' = [scrape EXCEPT !.pc[i] = "reading"]
       \/ \E error \in {"HTTP 500", "TimeoutError"} :
              scrape' = bounded_scrape_return(scrape, i, ScrapeError(i, error))
    /\ UNCHANGED <<rag, disk, ret, hist, norm>>

\* response.text() returns the page, or raises
ReadBody(i) ==
    /\ i \in 1..Len(scrape.pc)
    /\ scrape.pc[i] = "reading"
    /\ \/ \E length \in ContentLengths :
              scrape' = bounded_scrape_return(scrape, i, Scraped(i, length))
       \/ scrape' = bounded_scrape_return(scrape, i, ScrapeError(i, "TimeoutError"))
    /\ UNCHANGED <<rag, disk, ret, hist, norm>>

\* gather returns once every task is done; scrape_threads filters and returns
Gather ==
    /\ scrape.returned = PyNone
    /\ \A i \in 1..Len(scrape.pc) : scrape.pc[i] = "done"
    /\ scrape' = [scrape EXCEPT
                      !.returned = [type |-> "list",
                                    items |-> valid_results(scrape.results)]]
    /\ UNCHANGED <<rag, disk, ret, hist, norm>>

TaskStep(i) == Acquire(i) \/ Resume(i) \/ Respond(i) \/ ReadBody(i)

NextScrape == (\E i \in 1..MaxUrls : TaskStep(i)) \/ Gather

SpecScrape ==
    /\ InitScrape
    /\ [][NextScrape]_vars
    /\ \A i \in 1..MaxUrls : WF_vars(TaskStep(i))
    /\ WF_vars(Gather)

(***************************************************************************)
(* The properties.                                                         *)
(***************************************************************************)
IndexNotBuilt == "ValueError: Index not built. Call build_index() first."
EmptyCorpus == "ValueError: No valid documents to index"

\* the rows of the matrix; none when there is no matrix
MatrixRows(r) == IF r.tfidf_matrix = PyNone THEN 0 ELSE Len(r.tfidf_matrix.rows)
MatrixCols(r) == IF r.tfidf_matrix = PyNone THEN 0 ELSE Len(r.tfidf_matrix.rows[1])
VocabularySize(r) == IF r.vectorizer = PyNone THEN 0 ELSE Len(r.vectorizer.vocabulary)

\* a built index: the instance is as a successful build_index leaves it
BuiltIndex(r) ==
    \E c \in Corpora : build_index(NewRAG, c) = [self |-> r, raised |-> None]

\* the place in the document sequence of the document a result carries
PositionOf(r, result) ==
    CHOOSE i \in 1..Len(r.metadata) : r.metadata[i] = result.metadata

\* C1: the document sequence, the metadata sequence and the matrix rows are
\* equal in number in every reachable state, failed calls included.
C1_Aligned ==
    /\ Len(rag.documents) = Len(rag.metadata)
    /\ Len(rag.documents) = MatrixRows(rag)

\* C2: on a built index search(query, k) returns at most k results, and none
\* for k = 0.
C2_AtMostK ==
    (ret.op = "search" /\ BuiltIndex(rag) /\ ret.raised = None)
        => Len(ret.value) <= ret.k

\* C3: on a built index with P documents of positive similarity, search(query, k)
\* with k >= 1 returns exactly min(k, P) results, each with its document's
\* positive score, in descending order of score, and no omitted document scores
\* higher than a returned one.
C3_TopK ==
    (ret.op = "search" /\ ret.k >= 1 /\ BuiltIndex(rag)) =>
        Bind(Similarities(rag, ret.query).similarities, LAMBDA sims :
            LET n == Len(ret.value)
                P == Cardinality({d \in 1..Len(sims) : sims[d] > 0})
                pos == [i \in 1..n |-> PositionOf(rag, ret.value[i])]
            IN /\ ret.raised = None
               /\ n = Min(ret.k, P)
               /\ \A i \in 1..n :
                      /\ ret.value[i].score > 0
                      /\ ret.value[i].score = sims[pos[i]]
                      /\ ret.value[i].content = rag.documents[pos[i]]
               /\ \A i, j \in 1..n : i < j =>
                      /\ ret.value[i].score >= ret.value[j].score
                      /\ pos[i] /= pos[j]
               /\ \A d \in 1..Len(sims) :
                      (\A i \in 1..n : pos[i] /= d) =>
                          \A i \in 1..n : sims[d] <= ret.value[i].score)

\* C3's case: a built index, fewer positive documents than k, and a search
\* that returned them
C3_Witness ==
    /\ ret.op = "search" /\ ret.raised = None /\ BuiltIndex(rag)
    /\ ret.k = 2 /\ Len(ret.value) = 1 /\ Len(rag.documents) = 2

\* C4: documents of equal similarity are returned, and selected at the cut-off,
\* in the order of the document sequence.
C4_TiesInDocumentOrder ==
    (ret.op = "search" /\ ret.k >= 1 /\ BuiltIndex(rag) /\ ret.raised = None) =>
        Bind(Similarities(rag, ret.query).similarities, LAMBDA sims :
            LET n == Len(ret.value)
                pos == [i \in 1..n |-> PositionOf(rag, ret.value[i])]
            IN /\ \A i, j \in 1..n :
                      (i < j /\ ret.value[i].score = ret.value[j].score)
                          => pos[i] < pos[j]
               /\ \A i \in 1..n, d \in 1..Len(sims) :
                      ((\A j \in 1..n : pos[j] /= d) /\ sims[d] = ret.value[i].score)
                          => pos[i] < d)

\* C5: on an instance on which no build_index or load_index has succeeded,
\* search and answer_question raise the index-not-built error.
C5_UnbuiltRaises ==
    (ret.op \in {"search", "answer_question"} /\ ~hist.succeeded)
        => ret.raised = IndexNotBuilt

\* the artifacts as load_index would judge them: one is missing, or their
\* shapes disagree
ArtifactsCorrupt(files) ==
    \/ ~files.vectorizer.exists \/ ~files.matrix.exists \/ ~files.metadata.exists
    \/ LET r == [vectorizer |-> pickle_load(files.vectorizer),
                 tfidf_matrix |-> pickle_load(files.matrix),
                 documents |-> pickle_load(files.metadata).documents,
                 metadata |-> pickle_load(files.metadata).metadata]
       IN \/ Len(r.documents) /= Len(r.metadata)
          \/ Len(r.documents) /= MatrixRows(r)
          \/ VocabularySize(r) /= MatrixCols(r)

\* C6: a load_index from artifacts of which one is missing or whose shapes
\* disagree raises, and leaves the instance as it was.
C6_LoadAllOrNothing ==
    [][(ret'.op = "load_index" /\ hist'.calls = hist.calls + 1
            /\ ArtifactsCorrupt(disk))
          => (ret'.raised /= None /\ rag' = rag)]_vars

\* C7: build_index on a corpus of which M documents pass the length filter
\* leaves exactly those M documents, in input order, and a matrix of M rows when
\* M >= 1, and raises the empty-corpus error when M = 0.
C7_BuildYieldsM ==
    ret.op = "build_index" =>
        Bind(SelectSeq(ret.documents, KeepsDocument), LAMBDA kept :
            IF kept = <<>> THEN ret.raised = EmptyCorpus
            ELSE /\ ret.raised = None
                 /\ rag.documents = [i \in 1..Len(kept) |-> cleaned_text(kept[i])]
                 /\ Len(rag.metadata) = Len(kept)
                 /\ MatrixRows(rag) = Len(kept))

\* C8: the answer follows from what search returned: no results give the fixed
\* text, confidence 0 and no sources; otherwise the confidence is the first
\* result's score and there is one source per result, in order, with its
\* title, url and score.
C8_AnswerFromSearch ==
    ret.op = "answer_question" =>
        /\ [raised |-> ret.raised, value |-> ret.results]
               \in search(rag, ret.query, ret.k)
        /\ ret.raised = None =>
              IF ret.results = <<>>
              THEN /\ ret.value.answer.text = NoInformationFound
                   /\ ret.value.confidence = 0
                   /\ ret.value.sources = <<>>
              ELSE /\ ret.value.confidence = ret.results[1].score
                   /\ Len(ret.value.sources) = Len(ret.results)
                   /\ \A i \in 1..Len(ret.results) :
                          /\ ret.value.sources[i].title = ret.results[i].metadata.title
                          /\ ret.value.sources[i].url = ret.results[i].metadata.url
                          /\ ret.value.sources[i].score = ret.results[i].score

\* C8's case: an answer composed from two results of different scores
C8_Witness ==
    /\ ret.op = "answer_question" /\ ret.raised = None
    /\ Len(ret.results) = 2
    /\ ret.results[1].score > ret.results[2].score

\* C9: after a built index is saved whole and loaded, search on the loaded
\* instance has the outcomes search had on the saved one, for every query and k.
C9_RoundTrip ==
    (ret.op = "load_index" /\ ret.raised = None /\ hist.saved /= PyNone
            /\ BuiltIndex(hist.saved))
        => \A q \in Queries, k \in Ks : search(rag, q, k) = search(hist.saved, q, k)

\* C9's case: a fresh instance, on which build_index was never called, holds a
\* built index after a load that succeeded
C9_Witness ==
    /\ ret.op = "load_index" /\ ret.raised = None /\ ~hist.build_called
    /\ hist.saved /= PyNone /\ BuiltIndex(hist.saved)
    /\ \E r \in search(rag, WFever, 1) : r.raised = None /\ r.value /= <<>>

\* C10: preprocess_text applied to its own output returns it unchanged.
C10_Idempotent ==
    Len(norm) >= 3 => norm[3] = norm[2]

\* the fetch of urls[i] has begun: scrape_thread(urls[i]) was entered
Fetched(s, i) == s.pc[i] \in {"fetching", "reading", "done"}

\* the slots: the fetches in flight are at most max_concurrent, and every slot
\* is free, held by a fetch in flight, or handed to a woken waiter, so that no
\* finished fetch, failed or not, keeps one
C11_SlotsAccounted ==
    /\ Cardinality(InFlight(scrape)) <= scrape.max_concurrent
    /\ scrape.value >= 0
    /\ scrape.value + Cardinality(InFlight(scrape)) + Cardinality(scrape.woken)
           = scrape.max_concurrent

C11_AllFetched == \A i \in 1..Len(scrape.pc) : Fetched(scrape, i)

\* C11: during scrape_threads(urls), with max_concurrent >= 1, at most
\* max_concurrent fetches are in flight at any time under every interleaving,
\* a fetch that fails or times out gives its slot back, and the fetch of every
\* url eventually runs.
C11_BoundedAndLive == []C11_SlotsAccounted /\ <>C11_AllFetched

\* C11's case: one slot, two urls; the first fetch timed out and the second,
\* which had to queue behind it, is now in flight on the slot it gave back
C11_Witness ==
    /\ scrape.max_concurrent = 1
    /\ Len(scrape.pc) = 2
    /\ scrape.pc[1] = "done"
    /\ scrape.results[1].error = "TimeoutError"
    /\ 2 \in scrape.waited
    /\ scrape.pc[2] = "fetching"

============================================================================
